---------------------------- MODULE Spec2Model ----------------------------
(***************************************************************************)
(* Visual Elements Orchestrator: the service clients (one outbound call,   *)
(* error normalisation), the asynchronous job pollers of the diagram and   *)
(* chart clients, the metadata caches and the layout-service element       *)
(* injection (read-modify-write of one element collection).                *)
(*                                                                         *)
(* Three specifications share the module:                                  *)
(*   Spec        one generation request, from the outbound call (or job    *)
(*               submission and polling) to the route's response;          *)
(*   SpecCache   the metadata getters of one adapter under concurrency;    *)
(*   SpecInject  update_element calls against the document store.         *)
(* Time is counted in ticks; a call to a backend takes 0..MaxCallTime      *)
(* ticks (the httpx client timeout bounds it).                             *)
(***************************************************************************)
EXTENDS Integers, Sequences, FiniteSets, TLC

VARIABLES
    kind,        \* adapter serving the request
    pc,          \* position of the request in its handler
    job,         \* what the backend will answer to status queries
    attempt,     \* DiagramService.generate_with_polling: loop variable
    clock,       \* ticks elapsed since polling began (start_time = 0)
    polls,       \* status queries issued so far
    result,      \* value returned by the adapter
    response,    \* what the route answers
    sawUnknown,  \* some status answer was neither pending nor processing
    lateStart,   \* a status query was started after the wall-clock budget
    lateAccept,  \* a status answer was accepted after the wall-clock budget
    submitted,   \* the submission returned a job id and polling began
    callFailed,  \* a status query ended otherwise than with a status answer
    outcome,     \* how the outbound POST of the request ended
    errmsg,      \* message of the failure the poller returned ("-" if none)
    injection,   \* what the route's inject call returned
    lastStatus,  \* how the latest status query ended: the status answered or
                 \* the way the query failed ("none" before the first query)
    posts,       \* generate or submission POSTs the adapter issued so far
    grid_position, \* GridPosition of the request: parsed grid_row and grid_column
    etype,       \* chart_type, diagram_type or infographic_type of the request
    dims,        \* what convert_grid_position returned for the position
    category,    \* SpecGrid: what get_size_category returned for the position
    validation,  \* SpecGrid: what validate_minimum_size (or its diagram and
                 \* infographic counterpart) returned for the position
    cache,       \* SpecCache: cached value per getter (NoValue = None)
    calls,       \* SpecCache: the getter calls in progress or finished
    fetches,     \* SpecCache: upstream fetches per getter since the last clear
    cleared,     \* SpecCache: clear_cache calls so far, per adapter
    started,     \* SpecCache: number of getter calls started so far
    filledAt,    \* SpecCache: per getter, the epoch of the GET that filled the cache
    store,       \* SpecInject: per slide, the element collection the layout service holds
    inj,         \* SpecInject: the update_element calls
    writes       \* SpecInject: log of the writes applied by the store

reqVars   == <<kind, pc, job, attempt, clock, polls, result, response,
               sawUnknown, lateStart, lateAccept, submitted, callFailed,
               outcome, errmsg, injection, lastStatus, posts>>
cacheVars == <<cache, calls, fetches, cleared, started, filledAt>>
injVars   == <<store, inj, writes>>
gridVars  == <<grid_position, etype, dims, category, validation>>
vars      == <<reqVars, gridVars, cacheVars, injVars>>

-----------------------------------------------------------------------------
(* Bounds of the model *)

MaxPolls == 3             \* max_polls argument of generate_with_polling
DiagramPollInterval == 2  \* poll_interval argument, in ticks
ChartPollTimeout == 3     \* ChartService.poll_timeout, in ticks
MaxCallTime == 2          \* longest time one backend call may take, in ticks
MaxN == 3                 \* longest run of in-progress answers of a job
MaxCalls == 3             \* metadata getter calls in one run
MaxClears == 1            \* clear_cache calls in one run
NumSlides == 1            \* slides of the presentation
MaxStart == 3             \* largest start line of a grid value
MaxRowEnd == 18           \* largest end line of a grid_row (the grid has 14 rows)
MaxColEnd == 30           \* largest end line of a grid_column (the grid has 24)
FloatMax == 100           \* largest magnitude a float can hold
MaxValidations == 2       \* calls of a validator on one position

(* Program constants *)

ChartPollInterval == 1    \* ChartService.poll_interval

\* DIAGRAM_POLL_TIMEOUT: the documented budget of generate_with_polling,
\* "max_polls: ... (default 30 = 60 seconds)", i.e. max_polls * poll_interval.
DiagramPollTimeout == MaxPolls * DiagramPollInterval

SyncKinds  == {"text", "table", "image", "infographic"}
AsyncKinds == {"chart", "diagram"}
Kinds      == SyncKinds \cup AsyncKinds

-----------------------------------------------------------------------------
(* utils/grid_utils.py: the conversion of a GridPosition *)

\* an integer too large for a float: a run of a few hundred digits
Huge == 4 * FloatMax

\* A grid value such as "4/14": the two integers parse_grid_value finds at
\* its head, or Malformed when the pattern (\d+)\s*/\s*(\d+) does not match
\* (the digits take no sign, so both integers are >= 0).
Malformed == [start |-> -1, end |-> -1]
GridValues(maxEnd) ==
    {[start |-> a, end |-> b] : a \in (0 .. MaxStart) \cup {Huge},
                                b \in (0 .. maxEnd) \cup {Huge}}
    \cup {Malformed}

\* the positions converted, the one of the docstring among them:
\* gridRow="4/14", gridColumn="8/24"
GridPositions ==
    [grid_row : GridValues(MaxRowEnd), grid_column : GridValues(MaxColEnd)]
    \cup {[grid_row |-> [start |-> 4, end |-> 14],
           grid_column |-> [start |-> 8, end |-> 24]]}

NoDims == [tag |-> "none", width |-> 0, height |-> 0]
DimsRaised == [tag |-> "raised", width |-> 0, height |-> 0]

\* the spans are taken from the two values without the parse
GetGridDimensionsUnparsed(pos) ==
    [row_start |-> pos.grid_row.start, row_end |-> pos.grid_row.end,
     col_start |-> pos.grid_column.start, col_end |-> pos.grid_column.end,
     row_span |-> pos.grid_row.end - pos.grid_row.start,
     col_span |-> pos.grid_column.end - pos.grid_column.start]

\* get_grid_dimensions: starts, ends and spans, or the default ones when
\* either value fails to parse
GetGridDimensions(pos) ==
    IF pos.grid_row = Malformed \/ pos.grid_column = Malformed
    THEN [row_start |-> 4, row_end |-> 12, col_start |-> 4, col_end |-> 20,
          row_span |-> 8, col_span |-> 16]
    ELSE [row_start |-> pos.grid_row.start, row_end |-> pos.grid_row.end,
          col_start |-> pos.grid_column.start, col_end |-> pos.grid_column.end,
          row_span |-> pos.grid_row.end - pos.grid_row.start,
          col_span |-> pos.grid_column.end - pos.grid_column.start]

Abs(n) == IF n < 0 THEN -n ELSE n

\* a / b on integers raises OverflowError when the quotient is too large for
\* a float
TrueDivOverflows(a, b) == Abs(a) \div b > FloatMax

\* halves rounded up
RoundHalfUp(n) == (n + 1) \div 2

\* round(n / 2): ties go to the even neighbour
RoundHalf(n) ==
    LET q == n \div 2
    IN  IF n % 2 = 0 THEN q
        ELSE IF q % 2 = 0 THEN q ELSE q + 1

\* n * 8 / 14 cut to its integer part
TruncEightFourteenths(n) == (8 * n) \div 14

\* round(n * 8 / 14): n * 8 / 14 is never half-way between two integers
RoundEightFourteenths(n) == (8 * n + 7) \div 14

Min(a, b) == IF a < b THEN a ELSE b
Max(a, b) == IF a > b THEN a ELSE b

\* max(lo, min(hi, n))
Clamp(lo, hi, n) == Max(lo, Min(hi, n))

\* convert_grid_position
ConvertGridPosition(pos) ==
    LET d == GetGridDimensions(pos)
    IN  IF TrueDivOverflows(d.col_span, 2) \/ TrueDivOverflows(d.row_span * 8, 14)
        THEN DimsRaised
        ELSE [tag |-> "ok",
              width  |-> Clamp(1, 12, RoundHalf(d.col_span)),
              height |-> Clamp(1, 8, RoundEightFourteenths(d.row_span))]

\* calculate_grid_area: width * height of the converted position
CalculateGridArea(pos) ==
    LET d == ConvertGridPosition(pos)
    IN  d.width * d.height

NoCategory == "none"

\* the categories in their order, and the place of a category in it
Categories == <<"small", "medium", "large">>
RankOf(c) == CHOOSE i \in DOMAIN Categories : Categories[i] = c

\* thresholds that put the mid-sized areas below the small ones
SizeCategoryOfAreaSwapped(area) ==
    IF area <= 16 THEN "medium"
    ELSE IF area <= 48 THEN "small"
    ELSE "large"

\* get_size_category: if area <= 16 ... elif area <= 48 ... else ...
SizeCategoryOfArea(area) ==
    IF area <= 16 THEN "small"
    ELSE IF area <= 48 THEN "medium"
    ELSE "large"

\* an exception of convert_grid_position passes through calculate_grid_area
\* and get_size_category
GetSizeCategory(pos) ==
    IF ConvertGridPosition(pos) = DimsRaised THEN "raised"
    ELSE SizeCategoryOfArea(CalculateGridArea(pos))

-----------------------------------------------------------------------------
(* Values returned by the adapters *)

\* An "error" member: a dict with code and (possibly missing) retryable, a
\* non-dict JSON value such as a string, or no member at all.
ErrObj(code, retry) == [shape |-> "obj", code |-> code, retryable |-> retry]
ErrStr    == [shape |-> "str", code |-> "-", retryable |-> "absent"]
ErrAbsent == [shape |-> "absent", code |-> "-", retryable |-> "absent"]

NoResult == [tag |-> "none", success |-> "absent", error |-> ErrAbsent,
             payload |-> "none", job_id |-> FALSE]
Failure(err) == [tag |-> "dict", success |-> "false", error |-> err,
                 payload |-> "none", job_id |-> FALSE]
JobFailure(err) == [tag |-> "dict", success |-> "false", error |-> err,
                    payload |-> "none", job_id |-> TRUE]
Success(p, hasJob) == [tag |-> "dict", success |-> "true", error |-> ErrAbsent,
                       payload |-> p, job_id |-> hasJob]
\* a JSON body that is not an object, handed on as it is
NonDict == [tag |-> "nondict", success |-> "absent", error |-> ErrAbsent,
            payload |-> "none", job_id |-> FALSE]
\* an exception leaving the adapter
Raised == [tag |-> "raised", success |-> "absent", error |-> ErrAbsent,
           payload |-> "none", job_id |-> FALSE]
\* the submission answered with a job id: polling goes on
Submitted == [tag |-> "submitted", success |-> "absent", error |-> ErrAbsent,
              payload |-> "none", job_id |-> TRUE]

Payloads == {"p1", "p2"}
\* a successful result without the content the route injects
NoContent == "none"

-----------------------------------------------------------------------------
(* Outcomes of the outbound POST *)

Statuses == {400, 404, 500, 503}

\* Body of an HTTP error response
ErrBodies == {"unparsable", "nonobj", "noerr", "errstr",
              "err_retry_true", "err_retry_false", "err_retry_absent"}

\* Body of a 2xx response
OkBodies == {"unparsable", "nonobj", "success", "fail_errobj", "fail_errstr",
             "fail_noerr", "nosuccess", "job", "nojob"}

Outcomes ==
    {[t |-> x, status |-> 0, body |-> "-"] : x \in {"timeout", "connect", "other"}}
    \cup {[t |-> "http", status |-> s, body |-> b] : s \in Statuses, b \in ErrBodies}
    \cup {[t |-> "ok", status |-> 200, body |-> b] : b \in OkBodies}

NoOutcome == [t |-> "none", status |-> 0, body |-> "-"]

HttpCode(status) ==
    CASE status = 400 -> "HTTP_400"
      [] status = 404 -> "HTTP_404"
      [] status = 500 -> "HTTP_500"
      [] status = 503 -> "HTTP_503"

BoolStr(b) == IF b THEN "true" ELSE "false"

\* retryable only above 500
DefaultHttpErrorAbove500(status) == ErrObj(HttpCode(status), BoolStr(status > 500))

\* {"code": f"HTTP_{status}", ..., "retryable": status >= 500}
DefaultHttpError(status) == ErrObj(HttpCode(status), BoolStr(status >= 500))

\* except httpx.HTTPStatusError: error_data.get("error", <default>), and the
\* default again when e.response.json() or .get raises
HttpStatusError(status, body) ==
    CASE body \in {"unparsable", "nonobj", "noerr"} -> Failure(DefaultHttpError(status))
      [] body = "errstr"           -> Failure(ErrStr)
      [] body = "err_retry_true"   -> Failure(ErrObj("BACKEND", "true"))
      [] body = "err_retry_false"  -> Failure(ErrObj("BACKEND", "false"))
      [] body = "err_retry_absent" -> Failure(ErrObj("BACKEND", "absent"))

\* the chain with "except Exception" tried before "except httpx.ConnectError"
CallFailureGenericFirst(o) ==
    CASE o.t = "timeout" -> Failure(ErrObj("TIMEOUT", "true"))
      [] o.t = "http"    -> HttpStatusError(o.status, o.body)
      [] OTHER           -> Failure(ErrObj("INTERNAL_ERROR", "false"))

\* a timeout reported as final
CallFailureTimeoutFinal(o) ==
    CASE o.t = "timeout" -> Failure(ErrObj("TIMEOUT", "false"))
      [] o.t = "http"    -> HttpStatusError(o.status, o.body)
      [] o.t = "connect" -> Failure(ErrObj("CONNECTION_ERROR", "true"))
      [] OTHER           -> Failure(ErrObj("INTERNAL_ERROR", "false"))

\* the except chain shared by every generate and by submit_job
CallFailure(o) ==
    CASE o.t = "timeout" -> Failure(ErrObj("TIMEOUT", "true"))
      [] o.t = "http"    -> HttpStatusError(o.status, o.body)
      [] o.t = "connect" -> Failure(ErrObj("CONNECTION_ERROR", "true"))
      [] OTHER           -> Failure(ErrObj("INTERNAL_ERROR", "false"))

\* a parsed 2xx body returned as the result: result = response.json()
BodyAsResult(body, p) ==
    CASE body = "nonobj"      -> NonDict
      [] body = "success"     -> Success(p, FALSE)
      [] body = "fail_errobj" -> Failure(ErrObj("BACKEND", "false"))
      [] body = "fail_errstr" -> Failure(ErrStr)
      [] body = "fail_noerr"  -> Failure(ErrAbsent)
      [] OTHER                -> [tag |-> "dict", success |-> "absent",
                                  error |-> ErrAbsent, payload |-> p,
                                  job_id |-> FALSE]

\* TextService.generate, TableService.generate, ImageService.generate,
\* InfographicService.generate
SyncGenerate(o, p) ==
    IF o.t # "ok" THEN CallFailure(o)
    ELSE IF o.body = "unparsable" THEN Failure(ErrObj("INTERNAL_ERROR", "false"))
    ELSE BodyAsResult(o.body, p)

\* a missing job id reported as a failure that is not retryable
ChartSubmitNoJobFinal(o) ==
    IF o.t # "ok" THEN CallFailure(o)
    ELSE IF o.body \in {"unparsable", "nonobj"}
         THEN Failure(ErrObj("INTERNAL_ERROR", "false"))
    ELSE IF o.body = "job" THEN Submitted
    ELSE Failure(ErrObj("NO_JOB_ID", "false"))

\* ChartService.generate up to the call of _poll_job
ChartSubmit(o) ==
    IF o.t # "ok" THEN CallFailure(o)
    ELSE IF o.body \in {"unparsable", "nonobj"}
         THEN Failure(ErrObj("INTERNAL_ERROR", "false"))
    ELSE IF o.body = "job" THEN Submitted
    ELSE Failure(ErrObj("NO_JOB_ID", "true"))

\* DiagramService.submit_job: result.get('jobId') is evaluated inside the try
SubmitJob(o, p) ==
    IF o.t # "ok" THEN CallFailure(o)
    ELSE IF o.body \in {"unparsable", "nonobj"}
         THEN Failure(ErrObj("INTERNAL_ERROR", "false"))
    ELSE IF o.body = "job" THEN Submitted
    ELSE BodyAsResult(o.body, p)


-----------------------------------------------------------------------------
(* The backend job and its status endpoint *)

Finals == {"completed", "failed", "never"}

\* A job answers in-progress statuses to its first n status queries and its
\* final status afterwards; a job that never ends has no final status.
\* A failed job answers with an "error" member ("m1") or without one.
Jobs == {[n |-> n, final |-> "completed", payload |-> p, error |-> "absent"] :
            n \in 0..MaxN, p \in Payloads \cup {NoContent}}
        \cup {[n |-> n, final |-> "failed", payload |-> "p1", error |-> e] :
            n \in 0..MaxN, e \in {"absent", "m1"}}
        \cup {[n |-> 0, final |-> "never", payload |-> "p1", error |-> "absent"]}

NoJob == [n |-> 0, final |-> "never", payload |-> "p1", error |-> "absent"]

\* "unknown": any status other than the four known ones, a missing status
\* field included (status_result.get("status", "unknown"))
InProgress == {"pending", "processing", "unknown"}

\* statuses the backend may answer to status query number q
Answers(j, q) ==
    IF j.final = "never" \/ q <= j.n THEN InProgress ELSE {j.final}

\* how a status query can end: an answer, or a failure of the call
PollOutcomes == {"answer", "timeout", "connect", "http404", "http500",
                 "badjson", "nonobj"}

CallTimes == 0..MaxCallTime

-----------------------------------------------------------------------------
(* DiagramService: poll_status and the loop of generate_with_polling *)

\* a failed query reported as a job still processing
PollStatusRetrying(o, s) ==
    CASE o = "answer" -> s
      [] o = "nonobj" -> "nonobj"
      [] OTHER        -> "processing"

\* poll_status: the status of the dict it returns; "nonobj" when the 2xx body
\* is JSON but no object (returned as it is)
PollStatus(o, s) ==
    CASE o = "answer" -> s
      [] o = "nonobj" -> "nonobj"
      [] OTHER        -> "failed"

\* the "error" member of the dict poll_status returns
PollError(o, j) ==
    CASE o = "answer"  -> j.error
      [] o = "http404" -> "Job not found"
      [] o = "http500" -> "HTTP error"
      [] OTHER         -> "str(e)"

\* status_result.get("error", "Unknown error")
DiagramFailureMessage(e) == IF e = "absent" THEN "Unknown error" ELSE e

\* a loop giving up one attempt early
DiagramLoopStopsEarly(a) == a < MaxPolls - 1

\* for attempt in range(max_polls)
DiagramLoopContinues(a) == a < MaxPolls

\* a status outside the four known ones ends the loop with a failure
DiagramOnStatusUnknownFails(status, p) ==
    CASE status = "nonobj"    -> Raised
      [] status = "completed" -> Success(p, TRUE)
      [] status = "failed"    -> JobFailure(ErrObj("GENERATION_FAILED", "true"))
      [] status = "unknown"   -> JobFailure(ErrObj("UNKNOWN_STATUS", "true"))
      [] OTHER                -> NoResult

\* body of the loop after poll_status returned: the value returned, or
\* NoResult when the loop goes on
DiagramOnStatus(status, p) ==
    CASE status = "nonobj"    -> Raised
      [] status = "completed" -> Success(p, TRUE)
      [] status = "failed"    -> JobFailure(ErrObj("GENERATION_FAILED", "true"))
      [] OTHER                -> NoResult

DiagramPollTimeoutResult == JobFailure(ErrObj("POLL_TIMEOUT", "true"))

-----------------------------------------------------------------------------
(* ChartService._poll_job *)

\* if elapsed > self.poll_timeout
ChartTimedOut(elapsed) == elapsed > ChartPollTimeout

ChartPollTimeoutResult == Failure(ErrObj("POLL_TIMEOUT", "true"))

\* status_data.get("error", "Chart generation failed")
ChartFailureMessage(e) == IF e = "absent" THEN "Chart generation failed" ELSE e

\* a failed job reported under the code of an exhausted budget
ChartOnStatusFailedAsTimeout(o, s, p) ==
    CASE o = "http404" -> Failure(ErrObj("POLL_HTTP_404", "true"))
      [] o = "http500" -> Failure(ErrObj("POLL_HTTP_500", "true"))
      [] o # "answer"  -> Failure(ErrObj("POLL_ERROR", "true"))
      [] s = "completed" -> Success(p, FALSE)
      [] s = "failed"  -> Failure(ErrObj("POLL_TIMEOUT", "true"))
      [] OTHER         -> NoResult

\* the try block of one iteration: the value returned, or NoResult when the
\* loop sleeps and goes on
ChartOnStatus(o, s, p) ==
    CASE o = "http404" -> Failure(ErrObj("POLL_HTTP_404", "true"))
      [] o = "http500" -> Failure(ErrObj("POLL_HTTP_500", "true"))
      [] o # "answer"  -> Failure(ErrObj("POLL_ERROR", "true"))
      [] s = "completed" -> Success(p, FALSE)
      [] s = "failed"  -> Failure(ErrObj("CHART_GENERATION_FAILED", "true"))
      [] OTHER         -> NoResult

Budget(k) == IF k = "diagram" THEN DiagramPollTimeout ELSE ChartPollTimeout

-----------------------------------------------------------------------------
(* Values returned by LayoutServiceClient.update_element *)

\* how the GET of the presentation and the PUT of the slide can end;
\* "other_nomsg" is an exception whose str() is empty, as the timeouts of the
\* HTTP client usually are; "http_detail_nonstr" is an HTTP error whose body
\* has a "detail" member that is no string (a list of validation errors)
ReadOutcomes  == {"ok", "http404", "http500", "connect", "other", "other_nomsg"}
WriteOutcomes == {"ok", "http_detail", "http_detail_nonstr", "http", "connect",
                  "other", "other_nomsg"}

NonStrDetail == "<detail: list>"

\* the shape of the "error" member of a failure the client returns: a
\* string, or the "detail" member of the store's answer whatever it is
InjErrorShape(ir) == IF ir.error = NonStrDetail THEN "list" ELSE "str"

InjOk == [success |-> TRUE, error |-> "-"]
InjFail(e) == [success |-> FALSE, error |-> e]
NoInjResult == [success |-> FALSE, error |-> "-"]

\* a failed GET taken for a success
GetPresentationErrorSwallowed(o) == InjOk

\* get_presentation: the result of a failed GET
GetPresentationError(o) ==
    CASE o = "http404" -> InjFail("not found")
      [] o = "http500" -> InjFail("Layout service error")
      [] o = "connect" -> InjFail("Unable to connect to Layout service")
      [] o = "other_nomsg" -> InjFail("")
      [] OTHER         -> InjFail("str(e)")

\* get_slide: slide_index < 0 or slide_index >= len(slides)
OutOfRange(i) == i < 0 \/ i >= NumSlides

\* update_slide: the result of a failed PUT
UpdateSlideError(o) ==
    CASE o = "http_detail" -> InjFail("detail")
      [] o = "http_detail_nonstr" -> InjFail(NonStrDetail)
      [] o = "http"        -> InjFail("Layout service error")
      [] o = "connect"     -> InjFail("Unable to connect to Layout service")
      [] o = "other_nomsg" -> InjFail("")
      [] OTHER             -> InjFail("str(e)")

\* every value update_element can return
InjectResults ==
    {InjOk, InjFail("out of range")}
    \cup {GetPresentationError(o) : o \in ReadOutcomes \ {"ok"}}
    \cup {UpdateSlideError(o) : o \in WriteOutcomes \ {"ok"}}

-----------------------------------------------------------------------------
(* The routes: generate_text, generate_chart, generate_diagram, ... *)

\* injected is "none" (None), "true" or "false"; injection_error is "none"
\* (None) or the error string of the injection
NoSuggestion == [width |-> 0, height |-> 0]
NoResponse == [tag |-> "none", code |-> "-", retryable |-> FALSE,
               payload |-> "none", injected |-> "none", injection_error |-> "none",
               suggestion |-> NoSuggestion]
\* an exception leaving the route: no response body is built
Fault      == [tag |-> "fault", code |-> "-", retryable |-> FALSE,
               payload |-> "none", injected |-> "none", injection_error |-> "none",
               suggestion |-> NoSuggestion]
ErrorDetail(code, retryable) ==
    [tag |-> "error", code |-> code, retryable |-> retryable,
     payload |-> "none", injected |-> "none", injection_error |-> "none",
     suggestion |-> NoSuggestion]
\* a response with success=True
SuccessResponse(p, injected, err) ==
    [tag |-> "success", code |-> "-", retryable |-> FALSE,
     payload |-> p, injected |-> injected, injection_error |-> err,
     suggestion |-> NoSuggestion]

\* if not result.get("success", False): error_info = result.get("error", {});
\* ErrorDetail(code=error_info.get("code", "UNKNOWN_ERROR"), ...,
\*             retryable=error_info.get("retryable", False))
RouteResponse(r) ==
    IF r.tag \in {"raised", "nondict"} THEN Fault
    ELSE IF r.success # "true"
         THEN CASE r.error.shape = "absent" -> ErrorDetail("UNKNOWN_ERROR", FALSE)
                [] r.error.shape = "str"    -> Fault
                [] OTHER -> ErrorDetail(r.error.code, r.error.retryable = "true")
    ELSE SuccessResponse(r.payload, "none", "none")

\* if html_content: ... (chart_config, svg_content or mermaid_code, image_url
\* or image_base64): the route injects only content that is there
HasContent(p) == p # NoContent

\* the route calls inject_* whatever the adapter returned
InjectsWhatever(r) == r.tag = "dict"

\* the route reaches its inject_* call: the failure branch returned before
\* it, and the content is there
Injects(r) == RouteResponse(r).tag = "success" /\ HasContent(r.payload)

\* injected = injection_result.get("success", False); if not injected:
\* injection_error = injection_result.get("error", ...); the response model
\* declares injection_error: Optional[str]
InjectedResponse(r, ir) ==
    IF ir.success THEN SuccessResponse(r.payload, "true", "none")
    ELSE IF ir.error = NonStrDetail THEN Fault
    ELSE SuccessResponse(r.payload, "false", ir.error)

-----------------------------------------------------------------------------
(* The minimum-size validation of the chart, diagram and infographic routes *)

ValidatedKinds == {"chart", "diagram", "infographic"}

\* some of the types of each kind, with their rows of MINIMUM_SIZES,
\* DIAGRAM_MIN_SIZES and INFOGRAPHIC_MIN_SIZES
Types(k) ==
    CASE k = "chart"       -> {"line", "radar"}
      [] k = "diagram"     -> {"flowchart", "gantt"}
      [] k = "infographic" -> {"statistics", "cycle"}
      [] OTHER             -> {"-"}

MinSize(k, t) ==
    CASE t = "line"       -> [width |-> 3, height |-> 2]
      [] t = "radar"      -> [width |-> 4, height |-> 4]
      [] t = "flowchart"  -> [width |-> 3, height |-> 2]
      [] t = "gantt"      -> [width |-> 6, height |-> 2]
      [] t = "statistics" -> [width |-> 4, height |-> 3]
      [] t = "cycle"      -> [width |-> 6, height |-> 6]
      [] OTHER            -> IF k = "infographic"
                             THEN [width |-> 6, height |-> 4]
                             ELSE [width |-> 3, height |-> 3]

\* a check that looks at the width only
TooSmallWidthOnly(d, m) == d.width < m.width

\* if dims["width"] < min_size["width"] or dims["height"] < min_size["height"]
TooSmall(d, m) == d.width < m.width \/ d.height < m.height

\* a suggestion that names the current size
GridTooSmallCurrentSize(d, m) ==
    [ErrorDetail("GRID_TOO_SMALL", TRUE) EXCEPT
        !.suggestion = [width |-> d.width, height |-> d.height]]

\* ErrorDetail(code="GRID_TOO_SMALL", ..., retryable=True, suggestion=
\* f"Resize the ... element to at least {min_width}x{min_height} grid units.")
GridTooSmall(d, m) ==
    [ErrorDetail("GRID_TOO_SMALL", TRUE) EXCEPT !.suggestion = m]

\* What a validator returns: {"valid": True, "width", "height"}, or
\* {"valid": False, "current_width", "current_height", "min_width",
\* "min_height", "message"}; the message names the current size, the type and
\* the minimum size. A key the dict does not have is 0 (or "none"); kind and
\* type record the call's arguments.
NoMessage == [current |-> NoSuggestion, type |-> "none", min |-> NoSuggestion]
NoValidation ==
    [tag |-> "none", kind |-> "-", type |-> "-", valid |-> FALSE,
     width |-> 0, height |-> 0, current_width |-> 0, current_height |-> 0,
     min_width |-> 0, min_height |-> 0, message |-> NoMessage,
     calls |-> 0]
ValidationRaised == [NoValidation EXCEPT !.tag = "raised"]

\* a validator that takes the size from the conversion made last, kept in
\* the state, instead of converting its argument
ValidateMinimumSizeOfDims(k, t, pos) ==
    LET d == dims
        m == MinSize(k, t)
    IN  IF d = DimsRaised THEN [ValidationRaised EXCEPT !.kind = k, !.type = t]
        ELSE IF TooSmall(d, m)
        THEN [NoValidation EXCEPT !.tag = "ok", !.kind = k, !.type = t,
                  !.valid = FALSE,
                  !.current_width = d.width, !.current_height = d.height,
                  !.min_width = m.width, !.min_height = m.height,
                  !.message = [current |-> [width |-> d.width, height |-> d.height],
                               type |-> t, min |-> m]]
        ELSE [NoValidation EXCEPT !.tag = "ok", !.kind = k, !.type = t,
                  !.valid = TRUE, !.width = d.width, !.height = d.height]

\* validate_minimum_size, validate_diagram_size, validate_infographic_size
ValidateMinimumSize(k, t, pos) ==
    LET d == ConvertGridPosition(pos)
        m == MinSize(k, t)
    IN  IF d = DimsRaised THEN [ValidationRaised EXCEPT !.kind = k, !.type = t]
        ELSE IF TooSmall(d, m)
        THEN [NoValidation EXCEPT !.tag = "ok", !.kind = k, !.type = t,
                  !.valid = FALSE,
                  !.current_width = d.width, !.current_height = d.height,
                  !.min_width = m.width, !.min_height = m.height,
                  !.message = [current |-> [width |-> d.width, height |-> d.height],
                               type |-> t, min |-> m]]
        ELSE [NoValidation EXCEPT !.tag = "ok", !.kind = k, !.type = t,
                  !.valid = TRUE, !.width = d.width, !.height = d.height]

\* a type the tables do not list
Unlisted == "unlisted"

\* positions a request may carry: a large one, a small one, one in between,
\* one that does not parse and one with a number too large for a float
SamplePositions ==
    {[grid_row |-> [start |-> 3, end |-> 13], grid_column |-> [start |-> 3, end |-> 19]],
     [grid_row |-> [start |-> 1, end |-> 3],  grid_column |-> [start |-> 1, end |-> 5]],
     [grid_row |-> [start |-> 1, end |-> 6],  grid_column |-> [start |-> 1, end |-> 9]],
     [grid_row |-> Malformed, grid_column |-> [start |-> 1, end |-> 5]],
     [grid_row |-> [start |-> 1, end |-> 6],  grid_column |-> [start |-> 1, end |-> Huge]]}

-----------------------------------------------------------------------------
(* Spec: one generation request *)

ReqInit ==
    /\ kind \in Kinds
    /\ job \in (IF kind \in AsyncKinds THEN Jobs ELSE {NoJob})
    /\ pc = "validate"
    /\ grid_position \in SamplePositions
    /\ etype \in Types(kind)
    /\ dims = NoDims
    /\ category = NoCategory
    /\ validation = NoValidation
    /\ attempt = 0
    /\ clock = 0
    /\ polls = 0
    /\ result = NoResult
    /\ response = NoResponse
    /\ sawUnknown = FALSE
    /\ lastStatus = "none"
    /\ posts = 0
    /\ lateStart = FALSE
    /\ lateAccept = FALSE
    /\ submitted = FALSE
    /\ callFailed = FALSE
    /\ outcome = NoOutcome
    /\ errmsg = "-"
    /\ injection = NoInjResult

IdleGrid ==
    /\ grid_position = [grid_row |-> Malformed, grid_column |-> Malformed]
    /\ etype = "-"
    /\ dims = NoDims
    /\ category = NoCategory
    /\ validation = NoValidation

IdleCache ==
    /\ cache = <<>>
    /\ calls = <<>>
    /\ fetches = <<>>
    /\ cleared = 0
    /\ started = 0
    /\ filledAt = <<>>

IdleInject ==
    /\ store = <<>>
    /\ inj = <<>>
    /\ writes = <<>>

Init == ReqInit /\ IdleCache /\ IdleInject

Return(r) ==
    /\ result' = r
    /\ pc' = "returned"

\* a failure marked retryable sends the adapter back to its call
AfterCallRetrying(r) ==
    IF r.tag = "dict" /\ r.success = "false" /\ r.error.shape = "obj"
          /\ r.error.retryable = "true"
    THEN "start"
    ELSE "returned"

\* where generate goes once its POST has ended and it is not to poll: every
\* branch of the try and of the except chain is a return
AfterCall(r) == "returned"

\* the head of a route: validate_minimum_size / validate_diagram_size /
\* validate_infographic_size where there is one, then convert_grid_position
Validate ==
    /\ pc = "validate"
    /\ LET d == ConvertGridPosition(grid_position)
           m == MinSize(kind, etype)
       IN  IF d = DimsRaised
           THEN /\ response' = Fault
                /\ pc' = "responded"
                /\ dims' = d
           ELSE IF kind \in ValidatedKinds /\ TooSmall(d, m)
           THEN /\ response' = GridTooSmall(d, m)
                /\ pc' = "responded"
                /\ dims' = d
           ELSE /\ response' = response
                /\ pc' = "start"
                /\ dims' = d
    /\ UNCHANGED <<kind, job, attempt, clock, polls, result, sawUnknown,
                   lateStart, lateAccept, submitted, callFailed, outcome>>
    /\ UNCHANGED <<errmsg, injection>>
    /\ UNCHANGED <<grid_position, etype, category, validation>>
    /\ UNCHANGED <<lastStatus, posts>>
    /\ UNCHANGED <<cacheVars, injVars>>

\* a synchronous adapter's generate
Generate ==
    /\ pc = "start"
    /\ kind \in SyncKinds
    /\ \E o \in Outcomes, p \in Payloads \cup {NoContent} :
          /\ outcome' = o
          /\ result' = SyncGenerate(o, p)
          /\ pc' = AfterCall(SyncGenerate(o, p))
    /\ UNCHANGED <<kind, job, attempt, clock, polls, response, sawUnknown,
                   lateStart, lateAccept, submitted, callFailed>>
    /\ UNCHANGED <<errmsg, injection>>
    /\ posts' = posts + 1
    /\ UNCHANGED lastStatus
    /\ UNCHANGED <<gridVars, cacheVars, injVars>>

\* ChartService.generate: the submission
ChartGenerate ==
    /\ pc = "start"
    /\ kind = "chart"
    /\ \E o \in Outcomes :
          /\ outcome' = o
          /\ IF ChartSubmit(o) = Submitted
             THEN /\ pc' = "c_check"
                  /\ result' = result
                  /\ submitted' = TRUE
             ELSE /\ result' = ChartSubmit(o)
                  /\ pc' = AfterCall(ChartSubmit(o))
                  /\ submitted' = FALSE
    /\ UNCHANGED <<kind, job, attempt, clock, polls, response, sawUnknown,
                   lateStart, lateAccept, callFailed>>
    /\ UNCHANGED <<errmsg, injection>>
    /\ posts' = posts + 1
    /\ UNCHANGED lastStatus
    /\ UNCHANGED <<gridVars, cacheVars, injVars>>

\* generate_with_polling: submit_job and the two early returns
DiagramSubmit ==
    /\ pc = "start"
    /\ kind = "diagram"
    /\ \E o \in Outcomes :
          /\ outcome' = o
          /\ IF SubmitJob(o, job.payload) = Submitted
             THEN /\ pc' = "d_sleep"
                  /\ result' = result
                  /\ submitted' = TRUE
             ELSE /\ result' = SubmitJob(o, job.payload)
                  /\ pc' = AfterCall(SubmitJob(o, job.payload))
                  /\ submitted' = FALSE
    /\ UNCHANGED <<kind, job, attempt, clock, polls, response, sawUnknown,
                   lateStart, lateAccept, callFailed>>
    /\ UNCHANGED <<errmsg, injection>>
    /\ posts' = posts + 1
    /\ UNCHANGED lastStatus
    /\ UNCHANGED <<gridVars, cacheVars, injVars>>

\* await asyncio.sleep(poll_interval) at the head of an iteration
DiagramSleep ==
    /\ pc = "d_sleep"
    /\ DiagramLoopContinues(attempt)
    /\ clock' = clock + DiagramPollInterval
    /\ pc' = "d_poll"
    /\ UNCHANGED <<kind, job, attempt, polls, result, response, sawUnknown,
                   lateStart, lateAccept, submitted, callFailed, outcome>>
    /\ UNCHANGED <<errmsg, injection>>
    /\ UNCHANGED <<lastStatus, posts>>
    /\ UNCHANGED <<gridVars, cacheVars, injVars>>

\* the loop is exhausted: POLL_TIMEOUT
DiagramTimeout ==
    /\ pc = "d_sleep"
    /\ ~DiagramLoopContinues(attempt)
    /\ Return(DiagramPollTimeoutResult)
    /\ UNCHANGED <<kind, job, attempt, clock, polls, response, sawUnknown,
                   lateStart, lateAccept, submitted, callFailed, outcome>>
    /\ UNCHANGED <<errmsg, injection>>
    /\ UNCHANGED <<lastStatus, posts>>
    /\ UNCHANGED <<gridVars, cacheVars, injVars>>

\* one status query of the diagram loop and the handling of its answer
DiagramPoll ==
    /\ pc = "d_poll"
    /\ \E o \in PollOutcomes, s \in Answers(job, polls + 1), d \in CallTimes :
          LET r == DiagramOnStatus(PollStatus(o, s), job.payload) IN
          /\ polls' = polls + 1
          /\ clock' = clock + d
          /\ lateStart' = (lateStart \/ clock > Budget(kind))
          /\ lateAccept' = (lateAccept \/ (o = "answer" /\ clock + d > Budget(kind)))
          /\ sawUnknown' = (sawUnknown \/ (o = "answer" /\ s = "unknown"))
          /\ lastStatus' = IF o = "answer" THEN s ELSE o
          /\ callFailed' = (callFailed \/ o # "answer")
          /\ attempt' = attempt + 1
          /\ errmsg' = IF PollStatus(o, s) = "failed"
                       THEN DiagramFailureMessage(PollError(o, job))
                       ELSE errmsg
          /\ IF r = NoResult
             THEN /\ pc' = "d_sleep"
                  /\ result' = result
             ELSE Return(r)
    /\ UNCHANGED <<kind, job, response, submitted, outcome>>
    /\ UNCHANGED injection
    /\ UNCHANGED posts
    /\ UNCHANGED <<gridVars, cacheVars, injVars>>

\* _poll_job: the budget check at the head of an iteration found it exhausted
ChartTimeout ==
    /\ pc = "c_check"
    /\ ChartTimedOut(clock)
    /\ Return(ChartPollTimeoutResult)
    /\ UNCHANGED <<kind, job, attempt, clock, polls, response, sawUnknown,
                   lateStart, lateAccept, submitted, callFailed, outcome>>
    /\ UNCHANGED <<errmsg, injection>>
    /\ UNCHANGED <<lastStatus, posts>>
    /\ UNCHANGED <<gridVars, cacheVars, injVars>>

\* _poll_job: the budget check passed, one status query and its handling
ChartPoll ==
    /\ pc = "c_check"
    /\ ~ChartTimedOut(clock)
    /\ \E o \in PollOutcomes, s \in Answers(job, polls + 1), d \in CallTimes :
          LET r == ChartOnStatus(o, s, job.payload) IN
          /\ polls' = polls + 1
          /\ clock' = clock + d
          /\ lateStart' = (lateStart \/ clock > Budget(kind))
          /\ lateAccept' = (lateAccept \/ (o = "answer" /\ clock + d > Budget(kind)))
          /\ sawUnknown' = (sawUnknown \/ (o = "answer" /\ s = "unknown"))
          /\ lastStatus' = IF o = "answer" THEN s ELSE o
          /\ callFailed' = (callFailed \/ o # "answer")
          /\ errmsg' = IF o = "answer" /\ s = "failed"
                       THEN ChartFailureMessage(job.error)
                       ELSE errmsg
          /\ IF r = NoResult
             THEN /\ pc' = "c_sleep"
                  /\ result' = result
             ELSE Return(r)
    /\ UNCHANGED <<kind, job, attempt, response, submitted, outcome>>
    /\ UNCHANGED injection
    /\ UNCHANGED posts
    /\ UNCHANGED <<gridVars, cacheVars, injVars>>

\* await asyncio.sleep(self.poll_interval)
ChartSleep ==
    /\ pc = "c_sleep"
    /\ clock' = clock + ChartPollInterval
    /\ pc' = "c_check"
    /\ UNCHANGED <<kind, job, attempt, polls, result, response, sawUnknown,
                   lateStart, lateAccept, submitted, callFailed, outcome>>
    /\ UNCHANGED <<errmsg, injection>>
    /\ UNCHANGED <<lastStatus, posts>>
    /\ UNCHANGED <<gridVars, cacheVars, injVars>>

\* the route after the adapter returned: the error response, or the success
\* response at once when there is no content to inject
Route ==
    /\ pc = "returned"
    /\ IF Injects(result)
       THEN /\ pc' = "inject"
            /\ response' = response
       ELSE /\ pc' = "responded"
            /\ response' = RouteResponse(result)
    /\ UNCHANGED <<kind, job, attempt, clock, polls, result, sawUnknown,
                   lateStart, lateAccept, submitted, callFailed, outcome>>
    /\ UNCHANGED <<errmsg, injection>>
    /\ UNCHANGED <<lastStatus, posts>>
    /\ UNCHANGED <<gridVars, cacheVars, injVars>>

\* the route's injection, layout_service.inject_*, and the success response
RouteInject ==
    /\ pc = "inject"
    /\ \E ir \in InjectResults :
          /\ injection' = ir
          /\ response' = InjectedResponse(result, ir)
    /\ pc' = "responded"
    /\ UNCHANGED <<kind, job, attempt, clock, polls, result, sawUnknown,
                   lateStart, lateAccept, submitted, callFailed, outcome>>
    /\ UNCHANGED errmsg
    /\ UNCHANGED <<lastStatus, posts>>
    /\ UNCHANGED <<gridVars, cacheVars, injVars>>

Next ==
    \/ Validate
    \/ Generate
    \/ ChartGenerate
    \/ DiagramSubmit
    \/ DiagramSleep
    \/ DiagramTimeout
    \/ DiagramPoll
    \/ ChartTimeout
    \/ ChartPoll
    \/ ChartSleep
    \/ Route
    \/ RouteInject

Spec == Init /\ [][Next]_vars

\* The event loop runs every coroutine that is ready: a sleep ends, a call
\* returns (the client timeout bounds it), the route goes on.
FairSpec == Spec /\ WF_vars(Next)

-----------------------------------------------------------------------------
(* SpecCache: the metadata getters and clear_cache *)

\* get_types (diagram), get_styles (image), get_constraints and get_palettes
\* (chart); clear_cache of an adapter empties all its caches
Getters  == {"types", "styles", "constraints", "palettes"}
Adapters == {"diagram", "image", "chart"}
AdapterOf(g) ==
    CASE g = "types"  -> "diagram"
      [] g = "styles" -> "image"
      [] OTHER        -> "chart"

Slots == {"c1", "c2"}

NoValue == "None"
\* bodies the metadata endpoint may serve
Values == {"v1", "v2"}

\* how the GET of a getter can end: a JSON object, the JSON value null, or a
\* failure (timeout, connection failure, HTTP error status, unparsable body)
FetchOutcomes == {"ok", "null", "timeout", "connect", "http", "unparsable"}

\* a getter call: emptyAtStart, priorFetches and epoch are taken when the call
\* starts (epoch = clear_cache calls of its adapter so far); outcome is how
\* its GET ended; src, val, success and fallback describe the value returned;
\* valEpoch is the epoch in which the GET of that value was issued
IdleCall == [pc |-> "idle", getter |-> "-", emptyAtStart |-> FALSE,
             priorFetches |-> 0, epoch |-> 0, fetches |-> 0, outcome |-> "-",
             src |-> "-", val |-> NoValue, success |-> "-",
             fallback |-> FALSE, valEpoch |-> 0]

FetchFailed(o) == o \notin {"ok", "null"}

\* the built-in default returned without its tag
FallbackUntagged == [src |-> "fallback", val |-> NoValue, success |-> "true",
                     fallback |-> FALSE]

\* the built-in default: {"success": True, ..., "_cached": False,
\* "_fallback": True}
Fallback == [src |-> "fallback", val |-> NoValue, success |-> "true",
             fallback |-> TRUE]

\* the except branch stores the built-in default it returns
AfterFailureStoresDefault(old) == "default"

\* what the cache holds after the except branch: the branch only logs and
\* returns the built-in default, the cache attribute is not assigned
AfterFailure(old) == old

\* the getter fetches whatever the cache holds
CacheHitNever(v) == FALSE

\* if self._types_cache is not None: return self._types_cache
CacheHit(v) == v # NoValue

\* what a successful GET leaves in the cache: response.json() as it is, or for
\* get_constraints a dict built around it
Built(v) ==
    CASE v = "v1" -> "built:v1"
      [] v = "v2" -> "built:v2"
      [] OTHER    -> "built:null"

Stored(g, o, v) ==
    LET body == IF o = "ok" THEN v ELSE NoValue
    IN  IF g = "constraints" THEN Built(body) ELSE body

ReqIdleOf(k) ==
    /\ kind = k
    /\ job = NoJob
    /\ pc = "idle"
    /\ attempt = 0
    /\ clock = 0
    /\ polls = 0
    /\ result = NoResult
    /\ response = NoResponse
    /\ sawUnknown = FALSE
    /\ lastStatus = "none"
    /\ posts = 0
    /\ lateStart = FALSE
    /\ lateAccept = FALSE
    /\ submitted = FALSE
    /\ callFailed = FALSE
    /\ outcome = NoOutcome
    /\ errmsg = "-"
    /\ injection = NoInjResult

CacheInit ==
    /\ cache = [g \in Getters |-> NoValue]
    /\ calls = [c \in Slots |-> IdleCall]
    /\ fetches = [g \in Getters |-> 0]
    /\ cleared = [a \in Adapters |-> 0]
    /\ started = 0
    /\ filledAt = [g \in Getters |-> 0]

ReqIdle == ReqIdleOf("text")

InitCache == ReqIdle /\ IdleGrid /\ CacheInit /\ IdleInject

\* a getter is called: a cache hit returns at once, a miss issues the GET
GetterCall(c, g) ==
    /\ calls[c].pc \in {"idle", "done"}
    /\ started < MaxCalls
    /\ started' = started + 1
    /\ LET call == [IdleCall EXCEPT !.getter = g,
                                    !.emptyAtStart = (cache[g] = NoValue),
                                    !.priorFetches = fetches[g],
                                    !.epoch = cleared[AdapterOf(g)]]
       IN  IF CacheHit(cache[g])
           THEN /\ calls' = [calls EXCEPT ![c] =
                       [call EXCEPT !.pc = "done", !.src = "cache",
                                    !.val = cache[g], !.success = "body",
                                    !.valEpoch = filledAt[g]]]
                /\ fetches' = fetches
           ELSE /\ calls' = [calls EXCEPT ![c] =
                       [call EXCEPT !.pc = "fetching", !.fetches = 1]]
                /\ fetches' = [fetches EXCEPT ![g] = @ + 1]
    /\ UNCHANGED <<cache, cleared, filledAt>>
    /\ UNCHANGED <<reqVars, gridVars, injVars>>

\* the GET of a getter ends: the body is cached and returned, or the built-in
\* default is returned and the cache left alone
FetchReturn(c) ==
    /\ calls[c].pc = "fetching"
    /\ \E o \in FetchOutcomes, v \in Values :
          LET g == calls[c].getter IN
          IF FetchFailed(o)
          THEN /\ calls' = [calls EXCEPT ![c].pc = "done",
                                         ![c].outcome = o,
                                         ![c].src = Fallback.src,
                                         ![c].val = Fallback.val,
                                         ![c].success = Fallback.success,
                                         ![c].fallback = Fallback.fallback,
                                         ![c].valEpoch = calls[c].epoch]
               /\ cache' = [cache EXCEPT ![g] = AfterFailure(cache[g])]
               /\ UNCHANGED filledAt
          ELSE /\ calls' = [calls EXCEPT ![c].pc = "done",
                                         ![c].outcome = o,
                                         ![c].src = "live",
                                         ![c].val = Stored(g, o, v),
                                         ![c].success = "body",
                                         ![c].valEpoch = calls[c].epoch]
               /\ cache' = [cache EXCEPT ![g] = Stored(g, o, v)]
               /\ filledAt' = [filledAt EXCEPT ![g] = calls[c].epoch]
    /\ UNCHANGED <<fetches, cleared, started>>
    /\ UNCHANGED <<reqVars, gridVars, injVars>>

ClearsSoFar == cleared["diagram"] + cleared["image"] + cleared["chart"]

\* clear_cache of one adapter
ClearCache(a) ==
    /\ ClearsSoFar < MaxClears
    /\ cleared' = [cleared EXCEPT ![a] = @ + 1]
    /\ cache' = [g \in Getters |-> IF AdapterOf(g) = a THEN NoValue ELSE cache[g]]
    /\ fetches' = [g \in Getters |-> IF AdapterOf(g) = a THEN 0 ELSE fetches[g]]
    /\ UNCHANGED <<calls, started, filledAt>>
    /\ UNCHANGED <<reqVars, gridVars, injVars>>

NextCache ==
    \/ \E c \in Slots, g \in Getters : GetterCall(c, g)
    \/ \E c \in Slots : FetchReturn(c)
    \/ \E a \in Adapters : ClearCache(a)

SpecCache == InitCache /\ [][NextCache]_vars

C16_FallbackOnFailedFetch ==
    \A c \in Slots :
        /\ calls[c].pc = "done" => calls[c].src \in {"cache", "live", "fallback"}
        /\ (calls[c].pc = "done" /\ calls[c].emptyAtStart
                /\ calls[c].outcome \in {"timeout", "connect", "http", "unparsable"})
              => /\ calls[c].src = "fallback"
                 /\ calls[c].success = "true"
                 /\ calls[c].fallback
                 /\ calls[c].val = NoValue

\* a getter whose GET hit an HTTP error returned the default, and the cache
\* is still empty
C16_Witness ==
    \E c \in Slots :
        /\ calls[c].pc = "done"
        /\ calls[c].getter = "constraints"
        /\ calls[c].outcome = "http"
        /\ calls[c].src = "fallback" /\ calls[c].fallback
        /\ cache["constraints"] = NoValue

\* C17 (as claimed): a getter call started after a clear_cache of its adapter
\* never returns a value whose GET was issued before that clear, and when no
\* GET was issued since the clear it issues one itself.
C17_NoStaleValueAfterClear ==
    \A c \in Slots :
        (calls[c].pc # "idle" /\ calls[c].epoch >= 1) =>
            /\ calls[c].pc = "done" => calls[c].valEpoch = calls[c].epoch
            /\ calls[c].priorFetches = 0 => calls[c].fetches = 1

-----------------------------------------------------------------------------
(* SpecInject: LayoutServiceClient.update_element against the document store *)

Injectors == {"i1", "i2"}
Ids == {"e1", "e2"}
Fields == {"content", "alt"}
Absent == "absent"
NoPosition == "none"

\* an element of a collection: its id, its other fields (Absent = key not
\* present) and its position
Elem(id, c, a, pos) ==
    [id |-> id, fields |-> [f \in Fields |-> IF f = "content" THEN c ELSE a],
     position |-> pos]

\* the content argument: a dict over the fields, Absent = key not present
Content(c, a) == [f \in Fields |-> IF f = "content" THEN c ELSE a]
Contents == {Content("h1", Absent), Content("h2", "a1"), Content(Absent, Absent)}
Positions == {NoPosition, "p1"}
SlideIndexes == -1 .. NumSlides

InjectArgs == [element_id : Ids, content : Contents, position : Positions,
               slide_index : SlideIndexes]
NoArgs == [element_id |-> "-", content |-> Content(Absent, Absent),
           position |-> NoPosition, slide_index |-> 0]

\* collections the first slide may hold when a run starts; ids are unique
InitColls ==
    LET E1 == Elem("e1", "h0", "a0", "p0")
        E2 == Elem("e2", "h0", Absent, NoPosition)
    IN  {<< >>, <<E1>>, <<E2>>, <<E1, E2>>, <<E2, E1>>}

\* index of the first element carrying the id, 0 if there is none
RECURSIVE FindFrom(_, _, _)
FindFrom(coll, id, i) ==
    IF i > Len(coll) THEN 0
    ELSE IF coll[i].id = id THEN i
    ELSE FindFrom(coll, id, i + 1)

\* the search finds nothing
FindNever(coll, id) == 0

Find(coll, id) == FindFrom(coll, id, 1)

\* the content replaces the element's fields
MergeReplacing(e, content, position) ==
    [id |-> e.id, fields |-> content,
     position |-> IF position # NoPosition THEN position ELSE e.position]

\* element_array[i].update(content); if position: [...]["position"] = position
Merge(e, content, position) ==
    [id |-> e.id,
     fields |-> [f \in Fields |->
                   IF content[f] # Absent THEN content[f] ELSE e.fields[f]],
     position |-> IF position # NoPosition THEN position ELSE e.position]

\* the new element is built without the position
NewElementNoPosition(id, content, position) ==
    [id |-> id, fields |-> content, position |-> NoPosition]

\* new_element = {"id": element_id, **content}; if position: ...
NewElement(id, content, position) ==
    [id |-> id, fields |-> content, position |-> position]

\* the array sent back holds the injected element alone
UpdateElementAlone(coll, a) ==
    <<NewElement(a.element_id, a.content, a.position)>>

\* the element array update_element sends back
UpdateElement(coll, a) ==
    LET i == Find(coll, a.element_id)
    IN  IF i # 0
        THEN [coll EXCEPT ![i] = Merge(coll[i], a.content, a.position)]
        ELSE Append(coll, NewElement(a.element_id, a.content, a.position))

\* tables kept in an element array of their own
ElementTypeTablesApart(k) ==
    CASE k = "chart"       -> "charts"
      [] k = "diagram"     -> "diagrams"
      [] k = "text"        -> "text_boxes"
      [] k = "table"       -> "tables"
      [] k = "image"       -> "images"
      [] k = "infographic" -> "infographics"

\* inject_chart, inject_diagram, inject_text, inject_table, inject_image,
\* inject_infographic: the element array and the attribution they pass on
ElementType(k) ==
    CASE k = "chart"       -> "charts"
      [] k = "diagram"     -> "diagrams"
      [] k = "text"        -> "text_boxes"
      [] k = "table"       -> "text_boxes"
      [] k = "image"       -> "images"
      [] k = "infographic" -> "infographics"

\* the attribution update_element has by default
CreatedByDefault(k) == "orchestrator"

CreatedBy(k) ==
    CASE k = "chart"       -> "orchestrator-chart"
      [] k = "diagram"     -> "orchestrator-diagram"
      [] k = "text"        -> "orchestrator-text"
      [] k = "table"       -> "orchestrator-table"
      [] k = "image"       -> "orchestrator-image"
      [] k = "infographic" -> "orchestrator-infographic"

\* updates = {element_type: element_array}: the keys of the PUT's body
UpdateKeys(k) == {ElementType(k)}

\* puts counts the PUTs the call issued; keys and created_by are the keys of
\* the body and the created_by parameter of the PUT
IdleInjector == [pc |-> "idle", args |-> NoArgs, read |-> << >>,
                 payload |-> << >>, readAt |-> 0, sent |-> FALSE,
                 readOutcome |-> "-", result |-> NoInjResult,
                 puts |-> 0, keys |-> {}, created_by |-> "-"]

InjectInit ==
    /\ \E c \in InitColls :
          store = [i \in 0 .. (NumSlides - 1) |-> IF i = 0 THEN c ELSE << >>]
    /\ inj = [p \in Injectors |-> IdleInjector]
    /\ writes = << >>

\* The calls of one run are the inject calls of one route, on the element
\* array of that route's kind: any kind when the array starts empty, the two
\* kinds sharing text_boxes when it holds elements.
InjectKinds == IF store[0] = << >> THEN Kinds ELSE {"text", "table"}

InitInject ==
    /\ InjectInit
    /\ \E k \in InjectKinds : ReqIdleOf(k)
    /\ IdleGrid
    /\ IdleCache

\* update_element up to its PUT: get_slide, the search and the merge or append
InjectRead(p) ==
    /\ inj[p].pc = "idle"
    /\ \E a \in InjectArgs, o \in ReadOutcomes :
          IF o # "ok"
          THEN inj' = [inj EXCEPT ![p].pc = "done", ![p].args = a,
                                  ![p].readOutcome = o,
                                  ![p].result = GetPresentationError(o)]
          ELSE IF OutOfRange(a.slide_index)
          THEN inj' = [inj EXCEPT ![p].pc = "done", ![p].args = a,
                                  ![p].readOutcome = o,
                                  ![p].result = InjFail("out of range")]
          ELSE inj' = [inj EXCEPT ![p].pc = "write", ![p].args = a,
                                  ![p].readOutcome = o,
                                  ![p].read = store[a.slide_index],
                                  ![p].readAt = Len(writes),
                                  ![p].payload =
                                      UpdateElement(store[a.slide_index], a)]
    /\ UNCHANGED <<store, writes>>
    /\ UNCHANGED <<reqVars, gridVars, cacheVars>>

\* update_slide: the PUT of the element array; a PUT that ends in a timeout
\* may or may not have been applied
InjectWrite(p) ==
    /\ inj[p].pc = "write"
    /\ \E o \in WriteOutcomes, applied \in BOOLEAN :
          LET s == inj[p].args.slide_index IN
          /\ (o = "ok") => applied
          /\ (o \notin {"ok", "other", "other_nomsg"}) => ~applied
          /\ inj' = [inj EXCEPT ![p].pc = "done", ![p].sent = TRUE,
                                ![p].puts = @ + 1,
                                ![p].keys = UpdateKeys(kind),
                                ![p].created_by = CreatedBy(kind),
                                ![p].result = IF o = "ok" THEN InjOk
                                              ELSE UpdateSlideError(o)]
          /\ IF applied
             THEN /\ store' = [store EXCEPT ![s] = inj[p].payload]
                  /\ writes' = Append(writes, [by |-> p, slide |-> s,
                                               keys |-> UpdateKeys(kind),
                                               created_by |-> CreatedBy(kind),
                                               after |-> inj[p].payload])
             ELSE UNCHANGED <<store, writes>>
    /\ UNCHANGED <<reqVars, gridVars, cacheVars>>

NextInject ==
    \/ \E p \in Injectors : InjectRead(p)
    \/ \E p \in Injectors : InjectWrite(p)

SpecInject == InitInject /\ [][NextInject]_vars

-----------------------------------------------------------------------------
(* SpecGrid: convert_grid_position applied to a position *)

InitGrid ==
    /\ ReqIdle
    /\ grid_position \in GridPositions
    /\ etype = "-"
    /\ dims = NoDims
    /\ category = NoCategory
    /\ validation = NoValidation
    /\ IdleCache
    /\ IdleInject

\* dims = convert_grid_position(position)
Convert ==
    /\ dims = NoDims
    /\ dims' = ConvertGridPosition(grid_position)
    /\ UNCHANGED <<grid_position, etype, category, validation>>
    /\ UNCHANGED <<reqVars, cacheVars, injVars>>

\* category = get_size_category(position)
Classify ==
    /\ category = NoCategory
    /\ category' = GetSizeCategory(grid_position)
    /\ UNCHANGED <<grid_position, etype, dims, validation>>
    /\ UNCHANGED <<reqVars, cacheVars, injVars>>

\* validation = validate_minimum_size(position, chart_type), or
\* validate_diagram_size / validate_infographic_size
ValidateSize ==
    /\ validation = NoValidation
    /\ \E k \in ValidatedKinds : \E t \in Types(k) \cup {Unlisted} :
          validation' = [ValidateMinimumSize(k, t, grid_position)
                            EXCEPT !.calls = 1]
    /\ UNCHANGED <<grid_position, etype, dims, category>>
    /\ UNCHANGED <<reqVars, cacheVars, injVars>>

\* the same validator called again with the same position and type
ValidateAgain ==
    /\ validation # NoValidation
    /\ validation.calls < MaxValidations
    /\ validation' = [ValidateMinimumSize(validation.kind, validation.type,
                                          grid_position)
                         EXCEPT !.calls = validation.calls + 1]
    /\ UNCHANGED <<grid_position, etype, dims, category>>
    /\ UNCHANGED <<reqVars, cacheVars, injVars>>

NextGrid ==
    \/ Convert
    \/ Classify
    \/ ValidateSize
    \/ ValidateAgain

SpecGrid == InitGrid /\ [][NextGrid]_vars

\* positions of a collection that carry the id
Carrying(coll, id) == {i \in 1 .. Len(coll) : coll[i].id = id}

\* q made its whole call after p's call, both succeeded, nobody else wrote
InSequence(p, q) ==
    /\ p # q
    /\ inj[p].pc = "done" /\ inj[p].result = InjOk
    /\ inj[q].pc = "done" /\ inj[q].result = InjOk
    /\ Len(writes) = 2
    /\ writes[1].by = p /\ writes[2].by = q
    /\ inj[p].readAt = 0 /\ inj[q].readAt = 1

\* C5: two update_element calls in sequence with the same arguments, every
\* store call succeeding and no other writer in between, leave exactly one
\* element with that id, and the collection after the second call equals the
\* collection after the first.
C5_InjectIdempotent ==
    \A p, q \in Injectors :
        (InSequence(p, q) /\ inj[p].args = inj[q].args) =>
            LET s == inj[p].args.slide_index IN
            /\ store[s] = writes[1].after
            /\ writes[2].after = writes[1].after
            /\ Cardinality(Carrying(store[s], inj[p].args.element_id)) = 1

\* a repeated call whose first call appended and whose second call merged
C5_Witness ==
    \E p, q \in Injectors :
        /\ InSequence(p, q) /\ inj[p].args = inj[q].args
        /\ Carrying(inj[p].read, inj[p].args.element_id) = {}
        /\ inj[p].read # << >>
        /\ inj[p].args.content = Content("h2", "a1")
        /\ inj[p].args.position = "p1"
        /\ store[inj[p].args.slide_index] = inj[q].payload

\* C6: when the id is absent from the collection read, the array sent back is
\* the collection read, unchanged and in the same order, followed by exactly
\* one new element made of the id, the content fields and the position if one
\* was given; a successful write leaves that array in the store.
C6_CreateAppendsOne ==
    \A p \in Injectors :
        (inj[p].sent /\ Carrying(inj[p].read, inj[p].args.element_id) = {}) =>
            LET old == inj[p].read
                new == inj[p].payload
                a   == inj[p].args
            IN  /\ Len(new) = Len(old) + 1
                /\ \A i \in 1 .. Len(old) : new[i] = old[i]
                /\ new[Len(new)].id = a.element_id
                /\ \A f \in Fields : new[Len(new)].fields[f] = a.content[f]
                /\ new[Len(new)].position = a.position
                /\ inj[p].result = InjOk =>
                       \E k \in 1 .. Len(writes) :
                           writes[k].by = p /\ writes[k].after = new

\* an append, with a position, to a collection that held another element
C6_Witness ==
    \E p \in Injectors :
        /\ inj[p].sent /\ inj[p].result = InjOk
        /\ Carrying(inj[p].read, inj[p].args.element_id) = {}
        /\ Len(inj[p].read) = 1
        /\ inj[p].args.position = "p1"
        /\ inj[p].args.content = Content("h1", Absent)
        /\ Len(inj[p].payload) = 2

\* C7: when an element with the id is in the collection read, the array sent
\* back has the same length; that element takes the fields present in content,
\* keeps its fields absent from content, takes the position only if one was
\* given; every other element is unchanged.
C7_MergeOverwritesContentFields ==
    \A p \in Injectors :
        (inj[p].sent /\ Carrying(inj[p].read, inj[p].args.element_id) # {}) =>
            LET old == inj[p].read
                new == inj[p].payload
                a   == inj[p].args
            IN  /\ Len(new) = Len(old)
                /\ \A i \in 1 .. Len(old) :
                      IF old[i].id = a.element_id
                      THEN /\ new[i].id = old[i].id
                           /\ \A f \in Fields :
                                 new[i].fields[f] =
                                    IF a.content[f] # Absent THEN a.content[f]
                                    ELSE old[i].fields[f]
                           /\ new[i].position =
                                 IF a.position # NoPosition THEN a.position
                                 ELSE old[i].position
                      ELSE new[i] = old[i]

\* a merge that overwrites one field, keeps another and keeps the position,
\* next to an element it leaves alone
C7_Witness ==
    \E p \in Injectors :
        /\ inj[p].sent /\ inj[p].result = InjOk
        /\ inj[p].args.element_id = "e1"
        /\ inj[p].read = <<Elem("e2", "h0", Absent, NoPosition),
                           Elem("e1", "h0", "a0", "p0")>>
        /\ inj[p].args.content = Content("h1", Absent)
        /\ inj[p].args.position = NoPosition
        /\ inj[p].payload = <<Elem("e2", "h0", Absent, NoPosition),
                              Elem("e1", "h1", "a0", "p0")>>

\* C15: when the read of the document fails or the slide index is outside
\* 0..len(slides)-1, update_element returns {success: false, error} and sends
\* no write, so the store holds no write of that call.
C15_FailedReadWritesNothing ==
    \A p \in Injectors :
        (/\ inj[p].pc = "done"
         /\ \/ inj[p].readOutcome # "ok"
            \/ inj[p].args.slide_index \notin 0 .. (NumSlides - 1)) =>
            /\ ~inj[p].result.success
            /\ inj[p].result.error # "-"
            /\ ~inj[p].sent
            /\ inj[p].payload = << >>
            /\ \A k \in 1 .. Len(writes) : writes[k].by # p

\* one call stopped by a slide index past the end, another by a missing
\* document, and nothing written
C15_Witness ==
    /\ inj["i1"].pc = "done" /\ inj["i1"].readOutcome = "ok"
    /\ inj["i1"].args.slide_index = NumSlides
    /\ inj["i1"].result = InjFail("out of range")
    /\ inj["i2"].pc = "done" /\ inj["i2"].readOutcome = "http404"
    /\ inj["i2"].result = InjFail("not found")
    /\ writes = << >>
    /\ store[0] # << >>

-----------------------------------------------------------------------------
(* Properties of the pollers *)

Done == pc \in {"returned", "inject", "responded"}

\* the job went through polling and every status query was answered
Polled == Done /\ submitted /\ ~callFailed

C2_TimeoutExactlyAtBudget ==
    (Polled /\ job.final = "never") =>
        /\ result.error.code = "POLL_TIMEOUT"
        /\ kind = "diagram" => polls = MaxPolls
        /\ kind = "chart" => ~lateStart /\ ~lateAccept

\* C3 (as claimed): no status query is issued after the attempt limit has
\* been reached or after the wall-clock budget has elapsed.
C3_NoQueryPastEitherLimit ==
    /\ ~lateStart
    /\ kind = "diagram" => polls <= MaxPolls

-----------------------------------------------------------------------------
(* Properties of the outbound call and of the route's error mapping *)

\* the body of an HTTP error response is a JSON object with an "error" member
BodyHasError(b) ==
    b \in {"errstr", "err_retry_true", "err_retry_false", "err_retry_absent"}

\* C8 (as claimed): the adapter call never raises, and the route answers every
\* failed result with a structured ErrorDetail, never with an unhandled fault.
C8_NeverRaisesNorFaults ==
    /\ Done => result.tag # "raised"
    /\ (pc = "responded" /\ result.tag = "dict" /\ result.success = "false")
          => response.tag = "error"

C10_TransportFailures ==
    LET Is(code, retry) ==
            /\ result = Failure(ErrObj(code, BoolStr(retry)))
            /\ pc = "responded" => response = ErrorDetail(code, retry)
    IN  /\ (Done /\ outcome.t = "timeout") => Is("TIMEOUT", TRUE)
        /\ (Done /\ outcome.t = "connect") => Is("CONNECTION_ERROR", TRUE)
        /\ (Done /\ outcome.t = "other")   => Is("INTERNAL_ERROR", FALSE)

\* a connection failure of the image backend, answered as retryable
C10_Witness ==
    /\ kind = "image"
    /\ pc = "responded"
    /\ outcome.t = "connect"
    /\ response = ErrorDetail("CONNECTION_ERROR", TRUE)

-----------------------------------------------------------------------------
(* Properties of the submission *)

\* the submission was answered 2xx with an object carrying no job id
NoJobId == Done /\ kind \in AsyncKinds /\ outcome.t = "ok"
                /\ outcome.body \in {"success", "fail_errobj", "fail_errstr",
                                     "fail_noerr", "nosuccess", "nojob"}

-----------------------------------------------------------------------------
(* Properties of a failed job *)

\* the status query just answered reported failed
ReportedFailed ==
    submitted /\ ~callFailed /\ job.final = "failed" /\ polls = job.n + 1

FailedCode(k) ==
    IF k = "diagram" THEN "GENERATION_FAILED" ELSE "CHART_GENERATION_FAILED"

\* C12: when a status query reports failed the poller stops at once and
\* returns a failure with retryable=true that carries the backend's error
\* message (the fixed default text when the backend sent none) under the code
\* GENERATION_FAILED / CHART_GENERATION_FAILED; POLL_TIMEOUT is returned only
\* when the budget ran out with no status query having reported failed.
C12_FailedDistinctFromTimeout ==
    /\ (submitted /\ ~callFailed /\ job.final = "failed") => polls <= job.n + 1
    /\ ReportedFailed =>
          /\ Done
          /\ result.success = "false"
          /\ result.error = ErrObj(FailedCode(kind), "true")
          /\ result.error.code # "POLL_TIMEOUT"
          /\ errmsg = IF job.error = "m1" THEN "m1"
                      ELSE IF kind = "diagram" THEN "Unknown error"
                      ELSE "Chart generation failed"
          /\ pc = "responded" => response = ErrorDetail(FailedCode(kind), TRUE)
    /\ (Done /\ submitted /\ result.error.code = "POLL_TIMEOUT") =>
          /\ ~ReportedFailed
          /\ result.error.retryable = "true"
          /\ kind = "diagram" => attempt = MaxPolls
          /\ kind = "chart" => clock > ChartPollTimeout

\* a chart job that fails with a message after one in-progress answer
C12_Witness ==
    /\ kind = "chart"
    /\ pc = "responded"
    /\ ReportedFailed
    /\ job.n = 1 /\ job.error = "m1"
    /\ errmsg = "m1"
    /\ response = ErrorDetail("CHART_GENERATION_FAILED", TRUE)

\* C13: when the submission of an asynchronous backend times out, generate
\* returns a failure with retryable=true and no job id, and no status query
\* is issued.
C13_SubmitTimeout ==
    (Done /\ kind \in AsyncKinds /\ outcome.t = "timeout") =>
        /\ result.success = "false"
        /\ result.error.shape = "obj"
        /\ result.error.retryable = "true"
        /\ ~result.job_id
        /\ polls = 0 /\ attempt = 0 /\ ~submitted
        /\ pc = "responded" => response.tag = "error" /\ response.retryable

\* a diagram submission that timed out, answered by the route
C13_Witness ==
    /\ kind = "diagram"
    /\ pc = "responded"
    /\ outcome.t = "timeout"
    /\ polls = 0
    /\ response = ErrorDetail("TIMEOUT", TRUE)

-----------------------------------------------------------------------------
(* Properties of the route's injection *)

\* C14 (as claimed): when generation succeeded and the injection fails, the
\* response still has success=true with the generated content, injected=false
\* and a non-empty injection_error.
C14_InjectionFailureSurfaced ==
    (pc = "responded" /\ injection # NoInjResult /\ ~injection.success) =>
        /\ response.tag = "success"
        /\ response.payload = result.payload
        /\ response.injected = "false"
        /\ response.injection_error \notin {"none", ""}

-----------------------------------------------------------------------------
(* Properties of the minimum-size validation and of the grid conversion *)

\* the route answered with the minimum-size validation error
ValidationFailed == pc = "responded" /\ response.code = "GRID_TOO_SMALL"

\* C18 (as claimed): every GRID_TOO_SMALL failure of the chart, diagram and
\* infographic routes is reported with retryable=false and a suggestion
\* naming the minimum width and height of the type.
C18_GridTooSmallNotRetryable ==
    ValidationFailed =>
        /\ ~response.retryable
        /\ response.suggestion = MinSize(kind, etype)

\* C18 (amended): every GRID_TOO_SMALL failure is reported as an error with
\* retryable=true and a suggestion naming the minimum width and height of the
\* type, and a chart, diagram or infographic request whose converted size is
\* below that minimum in either axis gets this failure.
C18_GridTooSmallSuggestsMinimum ==
    /\ ValidationFailed =>
        /\ kind \in ValidatedKinds
        /\ response.tag = "error"
        /\ response.retryable
        /\ response.suggestion = MinSize(kind, etype)
    /\ ( /\ pc # "validate"
         /\ kind \in ValidatedKinds
         /\ dims.tag = "ok"
         /\ \/ dims.width < MinSize(kind, etype).width
            \/ dims.height < MinSize(kind, etype).height )
       => ValidationFailed

\* a cycle infographic at an unparsable position (default spans, 8x5) is
\* told to grow to 6x6
C18_Witness ==
    /\ ValidationFailed
    /\ kind = "infographic" /\ etype = "cycle"
    /\ grid_position.grid_row = Malformed
    /\ dims = [tag |-> "ok", width |-> 8, height |-> 5]
    /\ response.suggestion = [width |-> 6, height |-> 6]

\* C19: in the chart, diagram and infographic routes a request whose
\* position fails the minimum-size validation causes no outbound call: no
\* generate or submit call, no status query, no metadata fetch and no read
\* or write of the document store, up to and after the response.
C19_ValidationFailureCallsNothing ==
    LET d == ConvertGridPosition(grid_position)
        m == MinSize(kind, etype)
    IN  ( /\ kind \in ValidatedKinds
          /\ d.tag = "ok"
          /\ (d.width < m.width \/ d.height < m.height) )
        => /\ pc \in {"validate", "responded"}
           /\ outcome = NoOutcome /\ ~callFailed
           /\ ~submitted /\ attempt = 0 /\ polls = 0 /\ clock = 0
           /\ result = NoResult
           /\ injection = NoInjResult
           /\ IdleCache
           /\ IdleInject

\* a gantt diagram too narrow for its minimum, answered with nothing called
C19_Witness ==
    /\ ValidationFailed
    /\ kind = "diagram" /\ etype = "gantt"
    /\ dims.tag = "ok" /\ dims.width < 6
    /\ outcome = NoOutcome /\ ~submitted /\ polls = 0
    /\ injection = NoInjResult

\* C20 (as claimed): for every position, well-formed, reversed, larger than
\* the authoring grid or malformed, convert_grid_position returns a width in
\* 1..12 and a height in 1..8.
C20_DimsWithinRanges ==
    dims # NoDims =>
        /\ dims.tag = "ok"
        /\ dims.width \in 1 .. 12
        /\ dims.height \in 1 .. 8

\* C21: size classification is monotonic in area: of two converted
\* dimension pairs the one with the smaller or equal area never gets the
\* larger category in the order small < medium < large, where an area up
\* to 16 is small, an area above 16 and up to 48 is medium and an area
\* above 48 is large.
C21_CategoryMonotonicInArea ==
    category \notin {NoCategory, "raised"} =>
        LET a == CalculateGridArea(grid_position)
        IN  /\ category = "small"  <=> a <= 16
            /\ category = "medium" <=> (16 < a /\ a <= 48)
            /\ category = "large"  <=> 48 < a
            /\ \A w \in 1 .. 12 : \A h \in 1 .. 8 :
                 /\ w * h <= a =>
                      RankOf(SizeCategoryOfArea(w * h)) <= RankOf(category)
                 /\ a <= w * h =>
                      RankOf(category) <= RankOf(SizeCategoryOfArea(w * h))

\* a position converted to an area of exactly 48, the largest medium one
C21_Witness ==
    /\ category = "medium"
    /\ dims.tag = "ok"
    /\ dims.width * dims.height = 48

\* C29: a position whose row or column value cannot be parsed never makes
\* conversion, classification or validation fail: get_grid_dimensions
\* substitutes the default span (rows 4..12, columns 4..20) and
\* convert_grid_position, get_size_category and the validators return
\* normally, with the results of that default span.
C29_UnparsablePositionGetsDefaultSpan ==
    (grid_position.grid_row = Malformed \/ grid_position.grid_column = Malformed) =>
        /\ GetGridDimensions(grid_position) =
             [row_start |-> 4, row_end |-> 12, col_start |-> 4, col_end |-> 20,
              row_span |-> 8, col_span |-> 16]
        /\ dims # NoDims => dims = [tag |-> "ok", width |-> 8, height |-> 5]
        /\ category # NoCategory => category = "medium"
        /\ validation # NoValidation =>
             /\ validation.tag = "ok"
             /\ validation.valid =>
                  validation.width = 8 /\ validation.height = 5
             /\ ~validation.valid =>
                  validation.current_width = 8 /\ validation.current_height = 5

\* an unparsable row next to a column end too large for a float: converted,
\* classified and validated (against the cycle minimum) all the same
C29_Witness ==
    /\ grid_position.grid_row = Malformed
    /\ grid_position.grid_column # Malformed
    /\ grid_position.grid_column.end = Huge
    /\ dims = [tag |-> "ok", width |-> 8, height |-> 5]
    /\ category = "medium"
    /\ validation.tag = "ok" /\ validation.type = "cycle" /\ ~validation.valid

\* C30 (as claimed): the validators return valid=false exactly when the
\* converted width is below the minimum width of the type or the converted
\* height below its minimum height; the failure carries the current and the
\* minimum width and height and a message; a type missing from the table is
\* checked against the default minimum; and the function never raises.
C30_ValidatorsDecideBySize ==
    validation # NoValidation =>
        LET d == ConvertGridPosition(grid_position)
            m == MinSize(validation.kind, validation.type)
        IN  /\ validation.tag = "ok"
            /\ ~validation.valid <=> (d.width < m.width \/ d.height < m.height)
            /\ ~validation.valid =>
                 /\ validation.current_width = d.width
                 /\ validation.current_height = d.height
                 /\ validation.min_width = m.width
                 /\ validation.min_height = m.height
                 /\ validation.message # NoMessage
            /\ validation.type = Unlisted =>
                 m = IF validation.kind = "infographic"
                     THEN [width |-> 6, height |-> 4]
                     ELSE [width |-> 3, height |-> 3]

-----------------------------------------------------------------------------
(* Properties of the polling loops, continued *)

\* C22: a status query answering with a status other than pending,
\* processing, completed or failed (a missing status field included) is
\* treated as still processing: the loop returns nothing, goes to its sleep
\* and on to the next attempt under the same budget, and a failure returned
\* while that status is the latest one is the exhausted budget's.
C22_UnknownStatusKeepsPolling ==
    [][ /\ (polls' = polls + 1 /\ lastStatus' = "unknown") =>
            /\ result' = NoResult
            /\ pc' = (IF kind = "diagram" THEN "d_sleep" ELSE "c_sleep")
            /\ attempt' = (IF kind = "diagram" THEN attempt + 1 ELSE attempt)
        /\ (pc' = "returned" /\ pc # "returned" /\ lastStatus' = "unknown") =>
            /\ polls' = polls
            /\ result' \in {DiagramPollTimeoutResult, ChartPollTimeoutResult} ]_vars

\* a chart job polled twice, the second answer carrying an unknown status
C22_Witness ==
    /\ kind = "chart"
    /\ pc = "c_sleep"
    /\ polls = 2
    /\ lastStatus = "unknown"
    /\ result = NoResult

\* C23 (as claimed): every run of the polling loop terminates: whatever
\* statuses and call outcomes the backend produces, once polling has begun
\* generate_with_polling and _poll_job eventually return one of
\* completed-success, failed or poll-timeout, and no run polls forever.
C23_PollingReturnsOneOfThree ==
    submitted ~>
        (Done /\ result.tag = "dict")

-----------------------------------------------------------------------------
(* Properties of concurrent injects *)

\* p and q both created an element, with different ids, on the same slide,
\* every store call succeeded, and q's write came last
BothCreated(p, q) ==
    /\ p # q
    /\ inj[p].pc = "done" /\ inj[p].result = InjOk
    /\ inj[q].pc = "done" /\ inj[q].result = InjOk
    /\ inj[p].args.slide_index = inj[q].args.slide_index
    /\ inj[p].args.element_id # inj[q].args.element_id
    /\ Carrying(inj[p].read, inj[p].args.element_id) = {}
    /\ Carrying(inj[q].read, inj[q].args.element_id) = {}
    /\ Len(writes) = 2
    /\ writes[1].by = p /\ writes[2].by = q

\* C24: two concurrent injects on the same slide and collection with
\* different element ids can lose an update: the stored collection lacks the
\* element of the first writer exactly when the second writer read the
\* collection before the first one's write (and it holds both elements
\* otherwise); the interleaving is reachable (C24_Witness).
C24_LostUpdateIffStaleRead ==
    \A p, q \in Injectors :
        BothCreated(p, q) =>
            LET s == inj[p].args.slide_index IN
            /\ Carrying(store[s], inj[q].args.element_id) # {}
            /\ Carrying(store[s], inj[p].args.element_id) = {}
                   <=> inj[q].readAt = 0

\* both injects read the empty collection, both writes succeeded, and the
\* store holds the second writer's element only
C24_Witness ==
    \E p, q \in Injectors :
        /\ BothCreated(p, q)
        /\ inj[p].read = << >> /\ inj[q].read = << >>
        /\ inj[p].readAt = 0 /\ inj[q].readAt = 0
        /\ Len(store[inj[p].args.slide_index]) = 1
        /\ store[inj[p].args.slide_index][1].id = inj[q].args.element_id

\* the call of p read its slide: the GET succeeded and the index is in range
ReadSucceeded(p) ==
    /\ inj[p].pc = "done"
    /\ inj[p].readOutcome = "ok"
    /\ inj[p].args.slide_index \in 0 .. (NumSlides - 1)

\* C28: each inject whose read succeeded issues exactly one write to the
\* document store; the body of the write holds the element array of the
\* injected kind and no other slide field, and the write carries the
\* attribution label of the flow (orchestrator-chart, -diagram, -text,
\* -table, -image, -infographic); an applied write is stored as sent.
C28_OneLabelledWritePerInject ==
    \A p \in Injectors :
        /\ ReadSucceeded(p) =>
              /\ inj[p].sent /\ inj[p].puts = 1
              /\ inj[p].keys \in {{"charts"}, {"diagrams"}, {"text_boxes"},
                                  {"images"}, {"infographics"}}
              /\ inj[p].keys =
                    {CASE kind \in {"text", "table"} -> "text_boxes"
                       [] kind = "chart"       -> "charts"
                       [] kind = "diagram"     -> "diagrams"
                       [] kind = "image"       -> "images"
                       [] kind = "infographic" -> "infographics"}
              /\ inj[p].created_by =
                    CASE kind = "chart"       -> "orchestrator-chart"
                      [] kind = "diagram"     -> "orchestrator-diagram"
                      [] kind = "text"        -> "orchestrator-text"
                      [] kind = "table"       -> "orchestrator-table"
                      [] kind = "image"       -> "orchestrator-image"
                      [] kind = "infographic" -> "orchestrator-infographic"
              /\ Cardinality({k \in 1 .. Len(writes) : writes[k].by = p}) <= 1
        /\ (inj[p].pc = "done" /\ ~ReadSucceeded(p)) => inj[p].puts = 0
        /\ \A k \in 1 .. Len(writes) :
              writes[k].by = p =>
                 /\ writes[k].keys = inj[p].keys
                 /\ writes[k].created_by = inj[p].created_by
                 /\ writes[k].after = inj[p].payload

\* inject_table: one write of text_boxes alone, labelled orchestrator-table
C28_Witness ==
    /\ kind = "table"
    /\ ReadSucceeded("i1")
    /\ inj["i1"].result = InjOk
    /\ inj["i1"].puts = 1
    /\ inj["i1"].keys = {"text_boxes"}
    /\ inj["i1"].created_by = "orchestrator-table"
    /\ Len(writes) = 1 /\ writes[1].by = "i1"

-----------------------------------------------------------------------------
(* Properties of the failure values *)

\* C25 (as claimed): every failure value returned by an adapter call
\* (generate, submit, poll) or by the layout client (get_presentation,
\* get_slide, update_slide, update_element) is a record with the fields code,
\* message and retryable, so that a caller reads it without backend-specific
\* knowledge.
C25_FailuresHaveOneShape ==
    /\ (result.tag = "dict" /\ result.success = "false") =>
          /\ result.error.shape = "obj"
          /\ result.error.retryable \in {"true", "false"}
    /\ (injection # NoInjResult /\ ~injection.success) =>
          InjErrorShape(injection) = "obj"

\* C26 (as claimed): whenever generation succeeds, the route makes exactly
\* one inject attempt and the response reports its outcome: every response
\* to a successful generation has injected true or false, never unset.
C26_InjectionAlwaysReported ==
    (pc = "responded" /\ result.tag = "dict" /\ result.success = "true") =>
        /\ injection # NoInjResult
        /\ response.tag = "success"
        /\ response.injected \in {"true", "false"}

-----------------------------------------------------------------------------
(* Properties of the metadata caches, continued *)

\* C27 (as claimed): once a metadata cache has been populated it keeps that
\* value until the next clear_cache, in every interleaving of concurrent
\* getter calls: no step other than a clear_cache of its adapter replaces or
\* drops the cached value.
C27_OnlyClearReplacesCachedValue ==
    [][ \A g \in Getters :
          (cache[g] # NoValue /\ cleared'[AdapterOf(g)] = cleared[AdapterOf(g)]) =>
              cache'[g] = cache[g] ]_vars

-----------------------------------------------------------------------------
(* Properties of the grid conversion, continued *)

\* C31: the position with row value 4/14 (span 10) and column value 8/24
\* (span 16) converts to height 6 and width 8.
C31_ExampleConvertsToEightBySix ==
    ( /\ grid_position.grid_row = [start |-> 4, end |-> 14]
      /\ grid_position.grid_column = [start |-> 8, end |-> 24]
      /\ dims # NoDims )
    => dims = [tag |-> "ok", width |-> 8, height |-> 6]

C31_Witness ==
    /\ grid_position.grid_row = [start |-> 4, end |-> 14]
    /\ grid_position.grid_column = [start |-> 8, end |-> 24]
    /\ dims.tag = "ok" /\ dims.width = 8 /\ dims.height = 6

\* C37: convert_grid_position is monotone on each axis: a position with the
\* same row value and a larger or equal column span never converts to a
\* smaller width, and one with the same column value and a larger or equal
\* row span never to a smaller height; halves go to the even neighbour
\* before the clamp: column span 5 gives width 2, 7 gives 4, 1 gives 1.
C37_ConversionMonotone ==
    ( /\ dims.tag = "ok"
      /\ category = NoCategory /\ validation = NoValidation
      /\ grid_position.grid_row # Malformed
      /\ grid_position.grid_column # Malformed )
    => /\ \A cv \in GridValues(MaxColEnd) \ {Malformed} :
            LET d2 == ConvertGridPosition([grid_position EXCEPT !.grid_column = cv])
            IN  (d2.tag = "ok" /\ (cv.end - cv.start) >= (grid_position.grid_column.end - grid_position.grid_column.start))
                    => d2.width >= dims.width
       /\ \A rv \in GridValues(MaxRowEnd) \ {Malformed} :
            LET d2 == ConvertGridPosition([grid_position EXCEPT !.grid_row = rv])
            IN  (d2.tag = "ok" /\ (rv.end - rv.start) >= (grid_position.grid_row.end - grid_position.grid_row.start))
                    => d2.height >= dims.height
       /\ (grid_position.grid_column.end - grid_position.grid_column.start) = 5 => dims.width = 2
       /\ (grid_position.grid_column.end - grid_position.grid_column.start) = 7 => dims.width = 4
       /\ (grid_position.grid_column.end - grid_position.grid_column.start) = 1 => dims.width = 1

\* a column span of 7, converted to width 4
C37_Witness ==
    /\ grid_position.grid_column = [start |-> 0, end |-> 7]
    /\ grid_position.grid_row = [start |-> 0, end |-> 7]
    /\ dims = [tag |-> "ok", width |-> 4, height |-> 4]

-----------------------------------------------------------------------------
(* Properties of the outbound call *)

\* C33: a synchronous generate (text, table, image, infographic) issues
\* exactly one outbound backend call per invocation whatever its outcome,
\* and an asynchronous one (chart, diagram) exactly one submission: a failed
\* call, even one reported as retryable, is never repeated.
C33_OnePostPerInvocation ==
    /\ [](/\ posts \in {0, 1}
          /\ posts = 1 <=> outcome # NoOutcome
          /\ (result # NoResult \/ submitted) => posts = 1)
    /\ [][posts = 1 => posts' = 1]_vars

\* a text generation that timed out, reported as retryable after one call
C33_Witness ==
    /\ kind = "text"
    /\ pc = "responded"
    /\ outcome.t = "timeout"
    /\ result = Failure(ErrObj("TIMEOUT", "true"))
    /\ response = ErrorDetail("TIMEOUT", TRUE)
    /\ posts = 1

-----------------------------------------------------------------------------
(* Properties of the routes on a failed generation *)

\* C34: when generation fails (validation failure, backend error, failed job
\* or poll timeout) the route makes no call to the document store, neither a
\* read nor a write, so the document is unchanged by the request.
C34_FailedGenerationLeavesDocument ==
    (ValidationFailed \/ (result.tag = "dict" /\ result.success # "true")) =>
        /\ pc # "inject"
        /\ injection = NoInjResult
        /\ response.injected = "none"
        /\ IdleInject

\* a diagram job that failed, answered without any inject call
C34_Witness ==
    /\ kind = "diagram"
    /\ pc = "responded"
    /\ result = JobFailure(ErrObj("GENERATION_FAILED", "true"))
    /\ response = ErrorDetail("GENERATION_FAILED", TRUE)
    /\ injection = NoInjResult


-----------------------------------------------------------------------------
(* Properties of the metadata caches: the built-in default *)

-----------------------------------------------------------------------------
(* Properties of the polling loops: a failed status query *)

\* C36: a single failed status query (timeout, connection failure, HTTP 404
\* or 500) ends the polling loop in the same step: the adapter returns a
\* failure with retryable=true whose code is GENERATION_FAILED for a diagram
\* and POLL_HTTP_<status> or POLL_ERROR for a chart, and no status query
\* follows a failed one.
C36_FailedQueryEndsPolling ==
    [][ /\ (polls' = polls + 1
               /\ lastStatus' \in {"timeout", "connect", "http404", "http500"}) =>
            /\ pc' = "returned"
            /\ result'.tag = "dict"
            /\ result'.success = "false"
            /\ result'.error.shape = "obj"
            /\ result'.error.retryable = "true"
            /\ result'.error.code =
                  (IF kind = "diagram" THEN "GENERATION_FAILED"
                   ELSE CASE lastStatus' = "http404" -> "POLL_HTTP_404"
                          [] lastStatus' = "http500" -> "POLL_HTTP_500"
                          [] OTHER                   -> "POLL_ERROR")
        /\ (lastStatus \in {"timeout", "connect", "http404", "http500"})
               => polls' = polls ]_vars

\* a chart job whose second status query was answered 404
C36_Witness ==
    /\ kind = "chart"
    /\ polls = 2
    /\ lastStatus = "http404"
    /\ result = Failure(ErrObj("POLL_HTTP_404", "true"))
    /\ response # NoResponse


-----------------------------------------------------------------------------
(* Properties of the injection: text and table *)

\* C38: inject_text and inject_table address the same element array,
\* text_boxes: the PUT of an inject_table carries that array, and when the
\* array it read (the slide's text boxes) holds an element with the id, the
\* array it stores has the same length and one element with that id, the
\* fields of the content written over that element's.
C38_TableMergesIntoTextBox ==
    [][ \A p \in Injectors :
          ( /\ kind = "table"
            /\ inj[p].pc = "write" /\ inj'[p].pc = "done"
            /\ Len(writes') = Len(writes) + 1 ) =>
             LET a == inj[p].args
                 after == store'[a.slide_index]
             IN  /\ ElementType("table") = ElementType("text")
                 /\ inj'[p].keys = {ElementType("text")}
                 /\ writes'[Len(writes')].keys = {"text_boxes"}
                 /\ Carrying(inj[p].read, a.element_id) # {} =>
                       /\ Len(after) = Len(inj[p].read)
                       /\ Cardinality(Carrying(after, a.element_id)) = 1
                       /\ \A i \in Carrying(after, a.element_id), f \in Fields :
                             after[i].fields[f] =
                                 (IF a.content[f] # Absent THEN a.content[f]
                                  ELSE inj[p].read[i].fields[f]) ]_vars

\* an inject_table for the id of the text box the slide held: the array has
\* one element, with the table's content and the text box's other field
C38_Witness ==
    /\ kind = "table"
    /\ Len(writes) = 1
    /\ writes[1].created_by = "orchestrator-table"
    /\ writes[1].keys = {"text_boxes"}
    /\ inj[writes[1].by].args.element_id = "e1"
    /\ Len(store[0]) = 1
    /\ store[0][1].id = "e1"
    /\ store[0][1].fields["content"] = "h1"
    /\ store[0][1].fields["alt"] = "a0"


-----------------------------------------------------------------------------
(* Properties of the routes: a 2xx body without success=true *)

\* C39 (as claimed): a 2xx response of a synchronous backend whose body does
\* not carry success=true is answered by the route with a generation failure
\* whose code is the code of the body's error, or UNKNOWN_ERROR, and whose
\* retryable is false unless the body's error says true; no injection is
\* attempted.
C39_UnsuccessfulBodyReportedAsFailure ==
    ( /\ pc = "responded"
      /\ kind \in SyncKinds
      /\ outcome.t = "ok"
      /\ outcome.body \in {"fail_errobj", "fail_errstr", "fail_noerr",
                           "nosuccess", "job", "nojob"} ) =>
        /\ response.tag = "error"
        /\ response.code = (IF result.error.shape = "obj"
                            THEN result.error.code ELSE "UNKNOWN_ERROR")
        /\ response.retryable = (result.error.shape = "obj"
                                    /\ result.error.retryable = "true")
        /\ response.injected = "none"
        /\ injection = NoInjResult

=============================================================================
